---- MODULE Spec2Model ----
(***************************************************************************)
(* A model of lib/log4js.js: the category-based logger registry            *)
(* (getLogger, addAppender, clearAppenders, configure), the Logger         *)
(* (setLevel, the severity methods, isXEnabled), Level.toLevel and the     *)
(* logLevelFilter appender wrapper, and the pattern layout with the Date  *)
(* formatting it uses.                                                     *)
(*                                                                         *)
(* JavaScript values are modelled as follows.                              *)
(*  - A category argument is a string; Undefined stands for a missing or   *)
(*    non-string argument.                                                 *)
(*  - A Level object is the record [level, levelStr] of the source; the    *)
(*    JavaScript value undefined, where a Level is expected, is NoLevel.   *)
(*  - An argument of Level.toLevel is a tagged value [type, val]:          *)
(*    a string, a Level object (val = its levelStr), null or undefined.    *)
(*  - An appender is a closure.  A sink closure is [sink, filters = <<>>]; *)
(*    the closure returned by logLevelFilter(l, inner) is inner with the   *)
(*    captured level pushed in front of filters (outermost first).         *)
(*  - The listener list of the EventEmitter a Logger inherits from is the  *)
(*    field listeners of the logger, in addListener order.                 *)
(*  - A string a layout reads or builds is a sequence of one-character     *)
(*    strings; a value that may be undefined instead of such a string is   *)
(*    the record [defined, val].                                           *)
(***************************************************************************)
EXTENDS Integers, Sequences, FiniteSets, TLC

VARIABLES loggers, appenders, constructed, registered, firstGot, last, layout

vars == <<loggers, appenders, constructed, registered, firstGot, last, layout>>

(* ------------------------------ bounds -------------------------------- *)

\* registrations (pending-list entries) allowed since the last clear
MaxPending == 3
\* Logger constructions allowed
MaxLoggers == 2
\* pieces a generated template is put together from
MaxPieces == 3

(* ----------------------------- constants ------------------------------ *)

DEFAULT_CATEGORY == "[default]"
ALL_CATEGORIES == "[all]"

\* a missing or non-string categoryName
Undefined == "<undefined>"

\* the value undefined where a Level object is expected
NoLevel == [level |-> -1, levelStr |-> "<undefined>"]

\* The ranks are compared with <= and >= only.  Number.MIN_VALUE (the
\* smallest positive double) is written 0 and Number.MAX_VALUE 1000000:
\* both keep their order against the six finite ranks.
levels ==
  [ALL   |-> [level |-> 0,       levelStr |-> "ALL"],
   TRACE |-> [level |-> 5000,    levelStr |-> "TRACE"],
   DEBUG |-> [level |-> 10000,   levelStr |-> "DEBUG"],
   INFO  |-> [level |-> 20000,   levelStr |-> "INFO"],
   WARN  |-> [level |-> 30000,   levelStr |-> "WARN"],
   ERROR |-> [level |-> 40000,   levelStr |-> "ERROR"],
   FATAL |-> [level |-> 50000,   levelStr |-> "FATAL"],
   OFF   |-> [level |-> 1000000, levelStr |-> "OFF"]]

LevelNames == DOMAIN levels

AllLevels == {levels[n] : n \in LevelNames}

(* ------------------------ tagged argument values ---------------------- *)

Str(s) == [type |-> "string", val |-> s]
LevelObj(n) == [type |-> "object", val |-> n]
Null == [type |-> "null", val |-> ""]
Undef == [type |-> "undefined", val |-> ""]

\* String.prototype.toUpperCase on the strings the model uses
UpperTable ==
  [Trace |-> "TRACE", Debug |-> "DEBUG", Info |-> "INFO", Warn |-> "WARN",
   Error |-> "ERROR", Fatal |-> "FATAL",
   all |-> "ALL", trace |-> "TRACE", debug |-> "DEBUG", info |-> "INFO",
   warn |-> "WARN", error |-> "ERROR", fatal |-> "FATAL", off |-> "OFF",
   bogus |-> "BOGUS", wArN |-> "WARN",
   All |-> "ALL", tRaCe |-> "TRACE", iNfO |-> "INFO", fAtAl |-> "FATAL",
   Off |-> "OFF", warning |-> "WARNING"]

toUpperCase(s) == IF s \in DOMAIN UpperTable THEN UpperTable[s] ELSE s

(* ------------------------------- Level -------------------------------- *)

\* toLevel that looks the name up as it is written
toLevelCaseSensitive(sArg, defaultLevel) ==
  IF sArg.type = "null" THEN defaultLevel
  ELSE IF sArg.type = "string" /\ sArg.val \in LevelNames
       THEN levels[sArg.val]
       ELSE defaultLevel

\* Level.toLevel(sArg, defaultLevel)
toLevel(sArg, defaultLevel) ==
  IF sArg.type = "null" THEN defaultLevel
  ELSE IF sArg.type = "string" /\ toUpperCase(sArg.val) \in LevelNames
       THEN levels[toUpperCase(sArg.val)]
       ELSE defaultLevel

\* Level.prototype.isLessThanOrEqualTo
isLessThanOrEqualTo(this, otherLevel) == this.level <= otherLevel.level

\* Level.prototype.isGreaterThanOrEqualTo
isGreaterThanOrEqualTo(this, otherLevel) == this.level >= otherLevel.level

(* ------------------------------ appenders ----------------------------- *)

\* a caller-supplied sink function, the closure consoleAppender(layout)
\* returns ("console") or the closure fileAppender(file, layout) returns
Sink(name) == [sink |-> name, filters |-> <<>>]

\* sinks whose function throws when it is invoked
BrokenSinks == {"bad"}

\* the function consoleAppender itself, which configureAppenders registers
\* when the configuration lists no appenders: called with an event it
\* returns a closure and writes nothing
SilentSinks == {"consoleAppender"}

\* logLevelFilter(levelString, appender): the closure captures
\* level = Level.toLevel(levelString) (no default: undefined when the
\* argument is no recognised name) and the wrapped appender
logLevelFilter(levelString, appender) ==
  [appender EXCEPT !.filters = <<toLevel(levelString, NoLevel)>> \o @]

\* function LoggingEvent (startTime and logger are not modelled)
LoggingEvent(categoryName, level, message) ==
  [categoryName |-> categoryName, level |-> level, message |-> message]

\* The call appender(logEvent).  Its outcome: the sinks written to
\* (delivered) and whether the call threw (raised).  A filter closure reads
\* level.level of its captured level, a TypeError when that is undefined.
RECURSIVE Invoke(_, _)
Invoke(appender, logEvent) ==
  IF appender.filters = <<>>
  THEN IF appender.sink \in BrokenSinks
       THEN [delivered |-> <<>>, raised |-> TRUE]
       ELSE IF appender.sink \in SilentSinks
       THEN [delivered |-> <<>>, raised |-> FALSE]
       ELSE [delivered |-> <<[sink |-> appender.sink, event |-> logEvent]>>,
             raised |-> FALSE]
  ELSE LET level == Head(appender.filters)
           inner == [appender EXCEPT !.filters = Tail(@)]
       IN IF level = NoLevel
          THEN [delivered |-> <<>>, raised |-> TRUE]
          ELSE IF isGreaterThanOrEqualTo(logEvent.level, level)
               THEN Invoke(inner, logEvent)
               ELSE [delivered |-> <<>>, raised |-> FALSE]

(* -------------------------------- Logger ------------------------------ *)

\* function Logger (name, level), called as new Logger(categoryName)
Logger(name, id) ==
  [category |-> IF name = "" THEN DEFAULT_CATEGORY ELSE name,
   level |-> toLevel(Undef, levels.TRACE),
   listeners |-> <<>>,
   id |-> id]

\* EventEmitter.addListener("log", appender)
addListener(logger, appender) ==
  [logger EXCEPT !.listeners = Append(@, appender)]

\* EventEmitter.removeAllListeners("log")
removeAllListeners(logger) == [logger EXCEPT !.listeners = <<>>]

\* emit that goes on to the next listener after one has thrown
RECURSIVE emitContinue(_, _)
emitContinue(listeners, loggingEvent) ==
  IF listeners = <<>>
  THEN [invoked |-> <<>>, delivered |-> <<>>, raised |-> FALSE]
  ELSE LET first == Invoke(Head(listeners), loggingEvent)
           call == [appender |-> Head(listeners), event |-> loggingEvent]
           rest == emitContinue(Tail(listeners), loggingEvent)
       IN [invoked |-> <<call>> \o rest.invoked,
           delivered |-> first.delivered \o rest.delivered,
           raised |-> first.raised \/ rest.raised]

\* EventEmitter.emit("log", loggingEvent): the listeners are called in
\* order; a listener that throws ends the loop and the error propagates.
RECURSIVE emit(_, _)
emit(listeners, loggingEvent) ==
  IF listeners = <<>>
  THEN [invoked |-> <<>>, delivered |-> <<>>, raised |-> FALSE]
  ELSE LET first == Invoke(Head(listeners), loggingEvent)
           call == [appender |-> Head(listeners), event |-> loggingEvent]
       IN IF first.raised
          THEN [invoked |-> <<call>>, delivered |-> first.delivered,
                raised |-> TRUE]
          ELSE LET rest == emit(Tail(listeners), loggingEvent)
               IN [invoked |-> <<call>> \o rest.invoked,
                   delivered |-> first.delivered \o rest.delivered,
                   raised |-> rest.raised]

\* isLevelEnabled with the comparison turned round
isLevelEnabledReversed(logger, otherLevel) ==
  isGreaterThanOrEqualTo(logger.level, otherLevel)

\* Logger.prototype.isLevelEnabled
isLevelEnabled(logger, otherLevel) ==
  isLessThanOrEqualTo(logger.level, otherLevel)

\* the level each severity method closes over: Level.toLevel(levelString)
SeverityNames == {"Trace", "Debug", "Info", "Warn", "Error", "Fatal"}
MethodLevel(levelString) == toLevel(Str(levelString), NoLevel)

(* ------------------------------- registry ----------------------------- *)

\* The registry state the functions below read and write:
\* [loggers, appenders, constructed].  loggers maps a category name to its
\* Logger, appenders a category name to its list of appenders; constructed
\* counts the Logger objects built so far and gives each its identity.
EmptyMap == [k \in {} |-> <<>>]

Put(f, k, v) == [x \in DOMAIN f \cup {k} |-> IF x = k THEN v ELSE f[x]]

Registry(ls, as, n) == [loggers |-> ls, appenders |-> as, constructed |-> n]

\* appenders[category], [] when the property is not set
Pending(st, category) ==
  IF category \in DOMAIN st.appenders THEN st.appenders[category] ELSE <<>>

RECURSIVE addListeners(_, _)
addListeners(logger, appenderList) ==
  IF appenderList = <<>> THEN logger
  ELSE addListeners(addListener(logger, Head(appenderList)), Tail(appenderList))

\* getLogger without the cache lookup: every call builds a Logger
getLoggerNoCache(st, categoryName) ==
  LET name == IF categoryName = Undefined THEN DEFAULT_CATEGORY
              ELSE categoryName
      id == st.constructed + 1
      own == addListeners(Logger(name, id), Pending(st, name))
      all == addListeners(own, Pending(st, ALL_CATEGORIES))
  IN [st |-> [st EXCEPT !.loggers = Put(@, name, all), !.constructed = id],
      ret |-> id, key |-> name]

\* getLogger binding the wildcard appenders before the category's own
getLoggerWildcardFirst(st, categoryName) ==
  LET name == IF categoryName = Undefined THEN DEFAULT_CATEGORY
              ELSE categoryName
  IN IF name \in DOMAIN st.loggers
     THEN [st |-> st, ret |-> st.loggers[name].id, key |-> name]
     ELSE LET id == st.constructed + 1
              all == addListeners(Logger(name, id),
                                  Pending(st, ALL_CATEGORIES))
              own == addListeners(all, Pending(st, name))
          IN [st |-> [st EXCEPT !.loggers = Put(@, name, own),
                                !.constructed = id],
              ret |-> id, key |-> name]

\* function getLogger (categoryName): the registry afterwards and the
\* identity of the Logger returned
getLogger(st, categoryName) ==
  LET name == IF categoryName = Undefined THEN DEFAULT_CATEGORY
              ELSE categoryName
  IN IF name \in DOMAIN st.loggers
     THEN [st |-> st, ret |-> st.loggers[name].id, key |-> name]
     ELSE LET id == st.constructed + 1
              own == addListeners(Logger(name, id), Pending(st, name))
              all == addListeners(own, Pending(st, ALL_CATEGORIES))
          IN [st |-> [st EXCEPT !.loggers = Put(@, name, all),
                                !.constructed = id],
              ret |-> id, key |-> name]

\* function getDefaultLogger ()
getDefaultLogger(st) == getLogger(st, DEFAULT_CATEGORY)

\* addAppender that records a wildcard appender without binding it to the
\* loggers that exist
addAppenderToNoWildcardBind(st, appender, category) ==
  LET pushed == Put(st.appenders, category,
                    Append(Pending(st, category), appender))
  IN IF category # ALL_CATEGORIES /\ category \in DOMAIN st.loggers
     THEN [st EXCEPT !.appenders = pushed,
                     !.loggers[category] = addListener(@, appender)]
     ELSE [st EXCEPT !.appenders = pushed]

\* addAppender that records a category's appender without binding it to
\* the category's Logger when that exists
addAppenderToNoDirectBind(st, appender, category) ==
  LET pushed == Put(st.appenders, category,
                    Append(Pending(st, category), appender))
  IN IF category = ALL_CATEGORIES
     THEN [st EXCEPT !.appenders = pushed,
                     !.loggers = [c \in DOMAIN @ |-> addListener(@[c], appender)]]
     ELSE [st EXCEPT !.appenders = pushed]

\* addAppender that binds a category's appender in front of the appenders
\* its Logger is bound to
addAppenderToFront(st, appender, category) ==
  LET pushed == Put(st.appenders, category,
                    Append(Pending(st, category), appender))
  IN IF category = ALL_CATEGORIES
     THEN [st EXCEPT !.appenders = pushed,
                     !.loggers = [c \in DOMAIN @ |-> addListener(@[c], appender)]]
     ELSE IF category \in DOMAIN st.loggers
          THEN [st EXCEPT !.appenders = pushed,
                          !.loggers[category].listeners = <<appender>> \o @]
          ELSE [st EXCEPT !.appenders = pushed]

\* addAppender that builds the Logger of a category that has none
addAppenderToMaking(st, appender, category) ==
  LET pushed == Put(st.appenders, category,
                    Append(Pending(st, category), appender))
  IN IF category = ALL_CATEGORIES
     THEN [st EXCEPT !.appenders = pushed,
                     !.loggers = [c \in DOMAIN @ |-> addListener(@[c], appender)]]
     ELSE IF category \in DOMAIN st.loggers
          THEN [st EXCEPT !.appenders = pushed,
                          !.loggers[category] = addListener(@, appender)]
          ELSE getLogger([st EXCEPT !.appenders = pushed], category).st

\* the body of args.forEach in addAppender, for one category
addAppenderTo(st, appender, category) ==
  LET pushed == Put(st.appenders, category,
                    Append(Pending(st, category), appender))
  IN IF category = ALL_CATEGORIES
     THEN [st EXCEPT !.appenders = pushed,
                     !.loggers = [c \in DOMAIN @ |-> addListener(@[c], appender)]]
     ELSE IF category \in DOMAIN st.loggers
          THEN [st EXCEPT !.appenders = pushed,
                          !.loggers[category] = addListener(@, appender)]
          ELSE [st EXCEPT !.appenders = pushed]

RECURSIVE addAppenderEach(_, _, _)
addAppenderEach(st, appender, args) ==
  IF args = <<>> THEN st
  ELSE addAppenderEach(addAppenderTo(st, appender, Head(args)), appender,
                       Tail(args))

\* function addAppender (): args are the categories that follow the
\* appender, whether passed one by one or as one array; none, or undefined
\* first, means the wildcard
addAppender(st, appender, args) ==
  addAppenderEach(st, appender,
                  IF args = <<>> \/ Head(args) = Undefined
                  THEN <<ALL_CATEGORIES>> ELSE args)

\* clearAppenders that empties the loggers but keeps the pending lists
clearAppendersKeepPending(st) ==
  [st EXCEPT !.loggers = [c \in DOMAIN @ |-> removeAllListeners(@[c])]]

\* clearAppenders that puts a Logger at the default level in the place of
\* each Logger
clearAppendersAnew(st) ==
  [st EXCEPT !.appenders = EmptyMap,
             !.loggers = [c \in DOMAIN @ |-> Logger(@[c].category, @[c].id)]]

\* function clearAppenders ()
clearAppenders(st) ==
  [st EXCEPT !.appenders = EmptyMap,
             !.loggers = [c \in DOMAIN @ |-> removeAllListeners(@[c])]]

\* setLevel that gives the level to every Logger there is
setLevelEvery(st, key, level) ==
  [st EXCEPT !.loggers =
     [c \in DOMAIN @ |-> [@[c] EXCEPT !.level = toLevel(level, levels.TRACE)]]]

\* Logger.prototype.setLevel, on the Logger cached under key
setLevel(st, key, level) ==
  [st EXCEPT !.loggers[key].level = toLevel(level, levels.TRACE)]

\* Logger.prototype.log: builds the event and emits it; the registry is
\* not written
log(st, key, logLevel, message) ==
  LET logger == st.loggers[key]
      loggingEvent == LoggingEvent(logger.category, logLevel, message)
      out == emit(logger.listeners, loggingEvent)
  IN [st |-> st, built |-> 1, invoked |-> out.invoked,
      delivered |-> out.delivered, raised |-> out.raised]

\* Logger.prototype[levelString.toLowerCase()], a severity method
severity(st, key, levelString, message) ==
  IF isLevelEnabled(st.loggers[key], MethodLevel(levelString))
  THEN log(st, key, MethodLevel(levelString), message)
  ELSE [st |-> st, built |-> 0, invoked |-> <<>>, delivered |-> <<>>,
        raised |-> FALSE]

\* Logger.prototype['is'+levelString+'Enabled']
isEnabled(st, key, levelString) ==
  isLevelEnabled(st.loggers[key], MethodLevel(levelString))

(* ------------------------------ configure ----------------------------- *)

\* An appender configuration is [type, category, level, appender]:
\* category is the list of categories (<<>> when absent), level the level
\* of a logLevelFilter, appender the type of the appender it wraps.
AppenderConfig(type, category, level, appender) ==
  [type |-> type, category |-> category, level |-> level,
   appender |-> appender]

\* appenderMakers[type](config) for the makers that wrap nothing; a type
\* without a maker is a call of undefined, which throws
makeSink(type) ==
  IF type \in {"console", "file"}
  THEN [raised |-> FALSE, appender |-> Sink(type)]
  ELSE [raised |-> TRUE, appender |-> Sink("")]

\* appenderMakers[appenderConfig.type](appenderConfig)
makeAppender(config) ==
  IF config.type = "logLevelFilter"
  THEN LET inner == makeSink(config.appender)
       IN [raised |-> inner.raised,
           appender |-> logLevelFilter(config.level, inner.appender)]
  ELSE makeSink(config.type)

\* forEach that skips a configuration without a maker and goes on
RECURSIVE configureEachSkip(_, _)
configureEachSkip(st, appenderList) ==
  IF appenderList = <<>> THEN [st |-> st, raised |-> FALSE]
  ELSE LET made == makeAppender(Head(appenderList))
           rest == configureEachSkip(
                     IF made.raised THEN st
                     ELSE addAppender(st, made.appender,
                                      Head(appenderList).category),
                     Tail(appenderList))
       IN [st |-> rest.st, raised |-> made.raised \/ rest.raised]

\* appenderList.forEach in configureAppenders: stops at the first throw
RECURSIVE configureEach(_, _)
configureEach(st, appenderList) ==
  IF appenderList = <<>> THEN [st |-> st, raised |-> FALSE]
  ELSE LET made == makeAppender(Head(appenderList))
       IN IF made.raised
          THEN [st |-> st, raised |-> TRUE]
          ELSE configureEach(
                 addAppender(st, made.appender, Head(appenderList).category),
                 Tail(appenderList))

\* function configureAppenders(appenderList)
configureAppenders(st, hasList, appenderList) ==
  IF hasList
  THEN configureEach(clearAppenders(st), appenderList)
  ELSE [st |-> addAppender(clearAppenders(st), Sink("consoleAppender"), <<>>),
        raised |-> FALSE]

\* function configureLevels(levels): levels is the list of
\* [category, level] pairs of the object, in enumeration order
RECURSIVE configureLevels(_, _)
configureLevels(st, levelList) ==
  IF levelList = <<>> THEN st
  ELSE LET got == getLogger(st, Head(levelList).category)
       IN configureLevels(setLevel(got.st, got.key, Head(levelList).level),
                          Tail(levelList))

\* A configuration is [file, hasAppenders, appenders, levels]: file is
\* "none" (no configurationFile given), "unreadable" (readFileSync or
\* JSON.parse throws) or "ok".
Config(file, hasAppenders, appenderList, levelList) ==
  [file |-> file, hasAppenders |-> hasAppenders, appenders |-> appenderList,
   levels |-> levelList]

\* function configure (configurationFile)
configure(st, config) ==
  IF config.file = "none" THEN [st |-> st, raised |-> FALSE]
  ELSE IF config.file = "unreadable" THEN [st |-> st, raised |-> TRUE]
  ELSE LET done == configureAppenders(st, config.hasAppenders,
                                      config.appenders)
       IN IF done.raised THEN done
          ELSE [st |-> configureLevels(done.st, config.levels),
                raised |-> FALSE]

(* ------------------------------- strings ------------------------------ *)

\* a value that is a string or undefined
NoString == [defined |-> FALSE, val |-> <<>>]
StringOf(chars) == [defined |-> TRUE, val |-> chars]

\* F applied to the value of e: a JavaScript variable is assigned once
\* and read many times
Once(e, F(_)) == CHOOSE out \in {F(x) : x \in {e}} : TRUE

\* String(undefined), what RegExp.prototype.exec makes of undefined
UndefinedChars == <<"u", "n", "d", "e", "f", "i", "n", "e", "d">>

DigitChars == <<"0", "1", "2", "3", "4", "5", "6", "7", "8", "9">>

Digits == {DigitChars[i] : i \in 1..10}

DigitValue(c) == (CHOOSE i \in 1..10 : DigitChars[i] = c) - 1

\* String.prototype.substr(n), n >= 0
substr(s, n) == SubSeq(s, n + 1, Len(s))

\* String.prototype.substring(0, n), n >= 0
substring(s, n) == SubSeq(s, 1, IF n < Len(s) THEN n ELSE Len(s))

\* the longest prefix of s made of characters of set
RECURSIVE TakeWhile(_, _)
TakeWhile(s, set) ==
  IF s = <<>> \/ Head(s) \notin set THEN <<>>
  ELSE <<Head(s)>> \o TakeWhile(Tail(s), set)

\* the longest prefix of s without the character ch
RECURSIVE TakeUntil(_, _)
TakeUntil(s, ch) ==
  IF s = <<>> \/ Head(s) = ch THEN <<>>
  ELSE <<Head(s)>> \o TakeUntil(Tail(s), ch)

RECURSIVE ValueOf(_)
ValueOf(ds) ==
  IF ds = <<>> THEN 0
  ELSE 10 * ValueOf(SubSeq(ds, 1, Len(ds) - 1)) + DigitValue(ds[Len(ds)])

\* parseInt(s, 10): leading blanks, a sign, then the longest run of
\* digits; NaN when there is no digit
parseInt(s) ==
  LET body == substr(s, Len(TakeWhile(s, {" "})))
      signed == body # <<>> /\ Head(body) \in {"-", "+"}
      ds == TakeWhile(IF signed THEN Tail(body) ELSE body, Digits)
  IN IF ds = <<>> THEN [nan |-> TRUE, value |-> 0]
     ELSE [nan |-> FALSE,
           value |-> IF signed /\ Head(body) = "-" THEN 0 - ValueOf(ds)
                     ELSE ValueOf(ds)]

\* String(n) for a natural number n
RECURSIVE NumberChars(_)
NumberChars(n) ==
  IF n < 10 THEN <<DigitChars[n + 1]>>
  ELSE NumberChars(n \div 10) \o <<DigitChars[(n % 10) + 1]>>

\* String.prototype.split(ch)
RECURSIVE split(_, _)
split(s, ch) ==
  LET first == TakeUntil(s, ch)
  IN IF Len(first) = Len(s) THEN <<first>>
     ELSE <<first>> \o split(substr(s, Len(first) + 1), ch)

\* Array.prototype.join(ch)
RECURSIVE join(_, _)
join(bits, ch) ==
  IF bits = <<>> THEN <<>>
  ELSE IF Len(bits) = 1 THEN bits[1]
  ELSE bits[1] \o <<ch>> \o join(Tail(bits), ch)

\* String.prototype.replace(/pat/g, by) for a literal pat
RECURSIVE replaceAll(_, _, _)
replaceAll(s, pat, by) ==
  IF s = <<>> THEN <<>>
  ELSE IF Len(s) >= Len(pat) /\ SubSeq(s, 1, Len(pat)) = pat
  THEN by \o replaceAll(substr(s, Len(pat)), pat, by)
  ELSE <<Head(s)>> \o replaceAll(Tail(s), pat, by)

\* String.prototype.replace(/y{1,4}/g, by)
RECURSIVE replaceYears(_, _)
replaceYears(s, by) ==
  IF s = <<>> THEN <<>>
  ELSE IF Head(s) = "y"
  THEN LET run == Len(TakeWhile(s, {"y"}))
       IN by \o replaceYears(substr(s, IF run < 4 THEN run ELSE 4), by)
  ELSE <<Head(s)>> \o replaceYears(Tail(s), by)

\* String.prototype.indexOf(pat) > -1
RECURSIVE contains(_, _)
contains(s, pat) ==
  /\ Len(s) >= Len(pat)
  /\ \/ SubSeq(s, 1, Len(pat)) = pat
     \/ contains(Tail(s), pat)

(* -------------------------------- Date -------------------------------- *)

ISO8601_FORMAT ==
  <<"y", "y", "y", "y", "-", "M", "M", "-", "d", "d", " ",
    "h", "h", ":", "m", "m", ":", "s", "s", ".", "S", "S", "S">>

DATETIME_FORMAT ==
  <<"d", "d", " ", "M", "M", "M", " ", "Y", "Y", "Y", "Y", " ",
    "h", "h", ":", "m", "m", ":", "s", "s", ".", "S", "S", "S">>

ABSOLUTETIME_FORMAT ==
  <<"h", "h", ":", "m", "m", ":", "s", "s", ".", "S", "S", "S">>

\* A Date is the record of what its getters return: date, month (from 0),
\* fullYear, hours, minutes, seconds, milliseconds, timezoneOffset.

\* padWithZeros(vNumber, width), vNumber already turned into a string
RECURSIVE padWithZeros(_, _)
padWithZeros(numAsString, width) ==
  IF Len(numAsString) < width
  THEN padWithZeros(<<"0">> \o numAsString, width)
  ELSE numAsString

addZero(numAsString) == padWithZeros(numAsString, 2)

\* offset(date): the sign and the hours and minutes of the zone offset
offset(date) ==
  LET os == IF date.timezoneOffset < 0 THEN 0 - date.timezoneOffset
            ELSE date.timezoneOffset
      h == addZero(NumberChars(os \div 60))
      m == addZero(NumberChars(os % 60))
  IN (IF date.timezoneOffset < 0 THEN <<"+">> ELSE <<"-">>) \o h \o m

\* the chain of replace calls: each rule is applied to what the one
\* before it gave
RECURSIVE replaceEach(_, _)
replaceEach(s, rules) ==
  IF rules = <<>> THEN s
  ELSE Once(IF Head(rules).pat = <<"y">>
            THEN replaceYears(s, Head(rules).by)
            ELSE replaceAll(s, Head(rules).pat, Head(rules).by),
            LAMBDA replaced : replaceEach(replaced, Tail(rules)))

\* Date.prototype.toFormattedString(format); format is a string or
\* undefined.  The rule with pat "y" stands for /y{1,4}/g.
toFormattedString(date, format) ==
  LET fmt == IF format.defined /\ format.val # <<>> THEN format.val
             ELSE ISO8601_FORMAT
      vDay == addZero(NumberChars(date.date))
      vMonth == addZero(NumberChars(date.month + 1))
      vYearLong == addZero(NumberChars(date.fullYear))
      vYearShort == addZero(SubSeq(NumberChars(date.fullYear), 4, 4))
      vYear == IF contains(fmt, <<"y", "y", "y", "y">>) THEN vYearLong
               ELSE vYearShort
      vHour == addZero(NumberChars(date.hours))
      vMinute == addZero(NumberChars(date.minutes))
      vSecond == addZero(NumberChars(date.seconds))
      vMillisecond == padWithZeros(NumberChars(date.milliseconds), 3)
      vTimeZone == offset(date)
  IN replaceEach(fmt,
       <<[pat |-> <<"d", "d">>, by |-> vDay],
         [pat |-> <<"M", "M">>, by |-> vMonth],
         [pat |-> <<"y">>, by |-> vYear],
         [pat |-> <<"h", "h">>, by |-> vHour],
         [pat |-> <<"m", "m">>, by |-> vMinute],
         [pat |-> <<"s", "s">>, by |-> vSecond],
         [pat |-> <<"S", "S", "S">>, by |-> vMillisecond],
         [pat |-> <<"O">>, by |-> vTimeZone]>>)

\* Date.prototype.toLocaleTimeString() of the host, for a locale that
\* writes the time of day as hh:mm:ss
toLocaleTimeString(date) ==
  addZero(NumberChars(date.hours)) \o <<":">>
    \o addZero(NumberChars(date.minutes)) \o <<":">>
    \o addZero(NumberChars(date.seconds))

(* ---------------------------- pattern layout -------------------------- *)

\* Level.prototype.toString(), as characters
LevelChars ==
  [ALL   |-> <<"A", "L", "L">>,
   TRACE |-> <<"T", "R", "A", "C", "E">>,
   DEBUG |-> <<"D", "E", "B", "U", "G">>,
   INFO  |-> <<"I", "N", "F", "O">>,
   WARN  |-> <<"W", "A", "R", "N">>,
   ERROR |-> <<"E", "R", "R", "O", "R">>,
   FATAL |-> <<"F", "A", "T", "A", "L">>,
   OFF   |-> <<"O", "F", "F">>]

\* a LoggingEvent as a layout reads it: categoryName and message are
\* strings, level a Level, startTime a Date
TimedEvent(categoryName, level, message, startTime) ==
  [categoryName |-> categoryName, level |-> level, message |-> message,
   startTime |-> startTime]

\* the characters [cdmnpr%] of regex
ConversionCharacters == {"c", "d", "m", "n", "p", "r", "%"}

\* regex.exec found nothing (null)
NoMatch ==
  [found |-> FALSE, index |-> 0, matchedString |-> <<>>, padding |-> <<>>,
   truncation |-> <<>>, conversionCharacter |-> "", specifier |-> <<>>,
   text |-> <<>>]

\* the number of digits of s from position i on
RECURSIVE digitsAt(_, _)
digitsAt(s, i) ==
  IF i <= Len(s) /\ s[i] \in Digits THEN 1 + digitsAt(s, i + 1) ELSE 0

\* the length of what (-?[0-9]+)? takes at position 2 of s
paddingLength(s) ==
  LET sign == IF Len(s) >= 2 /\ s[2] = "-" THEN 1 ELSE 0
  IN IF digitsAt(s, 2 + sign) = 0 THEN 0 ELSE sign + digitsAt(s, 2 + sign)

\* the length of what (\.?[0-9]+)? takes at position i of s
truncationLength(s, i) ==
  LET dot == IF i <= Len(s) /\ s[i] = "." THEN 1 ELSE 0
  IN IF digitsAt(s, i + dot) = 0 THEN 0 ELSE dot + digitsAt(s, i + dot)

\* the length of what ([^\}]+) takes when (\{([^\}]+)\})? matches at
\* position i of s, 0 when that group takes no part
specifierLength(s, i) ==
  IF i <= Len(s) /\ s[i] = "{"
  THEN LET n == Len(TakeUntil(substr(s, i), "}"))
       IN IF n > 0 /\ i + n + 1 <= Len(s) THEN n ELSE 0
  ELSE 0

\* The first alternative of regex tried where s begins, s[1] = "%":
\*   %(-?[0-9]+)?(\.?[0-9]+)?([cdmnpr%])(\{([^\}]+)\})?
\* Every group is greedy, and giving back characters of one never lets
\* the match go on, so each group takes the longest run it can or takes
\* no part (<<>>).
matchDirective(s) ==
  Once(paddingLength(s), LAMBDA p :
  Once(truncationLength(s, 2 + p), LAMBDA t :
  Once(specifierLength(s, 3 + p + t), LAMBDA n :
    LET c == 2 + p + t
    IN IF c <= Len(s) /\ s[c] \in ConversionCharacters
       THEN [found |-> TRUE, index |-> 0,
             matchedString |->
               SubSeq(s, 1, c + (IF n > 0 THEN n + 2 ELSE 0)),
             padding |-> SubSeq(s, 2, 1 + p),
             truncation |-> SubSeq(s, 2 + p, 1 + p + t),
             conversionCharacter |-> s[c],
             specifier |-> SubSeq(s, c + 2, c + 1 + n),
             text |-> <<>>]
       ELSE NoMatch)))

\* exec whose second alternative is ([^%]*): where no directive begins it
\* matches the empty string
RECURSIVE execEmptyText(_)
execEmptyText(s) ==
  IF s = <<>> THEN [NoMatch EXCEPT !.found = TRUE]
  ELSE IF Head(s) # "%"
  THEN [NoMatch EXCEPT !.found = TRUE,
                       !.matchedString = TakeUntil(s, "%"),
                       !.text = TakeUntil(s, "%")]
  ELSE IF matchDirective(s).found THEN matchDirective(s)
  ELSE [NoMatch EXCEPT !.found = TRUE]

\* regex.exec(s): the leftmost match.  Where a character other than "%"
\* stands, the second alternative ([^%]+) takes the run up to the next
\* "%"; where "%" stands, only a directive can begin, and when none does
\* the search goes on one character further.
RECURSIVE exec(_)
exec(s) ==
  IF s = <<>> THEN NoMatch
  ELSE IF Head(s) # "%"
  THEN [NoMatch EXCEPT !.found = TRUE,
                       !.matchedString = TakeUntil(s, "%"),
                       !.text = TakeUntil(s, "%")]
  ELSE Once(matchDirective(s), LAMBDA here :
         IF here.found THEN here
         ELSE Once(exec(Tail(s)), LAMBDA later :
                IF later.found THEN [later EXCEPT !.index = @ + 1]
                ELSE NoMatch))

\* Array.prototype.slice(start) for an integer start
slice(bits, start) ==
  LET from == IF start < 0
              THEN (IF Len(bits) + start < 0 THEN 0 ELSE Len(bits) + start)
              ELSE start
  IN SubSeq(bits, from + 1, Len(bits))

\* case "c" keeping the first precision segments
categoryPrecisionFirst(categoryName, specifier) ==
  IF specifier # <<>>
  THEN LET precision == parseInt(specifier)
           loggerNameBits == split(categoryName, ".")
       IN IF ~precision.nan /\ precision.value >= Len(loggerNameBits)
          THEN categoryName
          ELSE join(SubSeq(loggerNameBits, 1,
                           IF precision.nan \/ precision.value < 0 THEN 0
                           ELSE precision.value), ".")
  ELSE categoryName

\* case "c": a comparison with NaN is false, and slice(NaN) is slice(0)
categoryPrecision(categoryName, specifier) ==
  IF specifier # <<>>
  THEN LET precision == parseInt(specifier)
           loggerNameBits == split(categoryName, ".")
       IN IF ~precision.nan /\ precision.value >= Len(loggerNameBits)
          THEN categoryName
          ELSE join(slice(loggerNameBits,
                          IF precision.nan THEN 0
                          ELSE Len(loggerNameBits) - precision.value), ".")
  ELSE categoryName

ISO8601 == <<"I", "S", "O", "8", "6", "0", "1">>
ABSOLUTE == <<"A", "B", "S", "O", "L", "U", "T", "E">>
DATE == <<"D", "A", "T", "E">>

\* case "d"
dateFormat(specifier) ==
  IF specifier = <<>> \/ specifier = ISO8601 THEN ISO8601_FORMAT
  ELSE IF specifier = ABSOLUTE THEN ABSOLUTETIME_FORMAT
  ELSE IF specifier = DATE THEN DATETIME_FORMAT
  ELSE specifier

\* the switch on conversionCharacter: the raw replacement
replacementOf(result, loggingEvent) ==
  CASE result.conversionCharacter = "c" ->
         categoryPrecision(loggingEvent.categoryName, result.specifier)
    [] result.conversionCharacter = "d" ->
         toFormattedString(loggingEvent.startTime,
                           StringOf(dateFormat(result.specifier)))
    [] result.conversionCharacter = "m" -> loggingEvent.message
    [] result.conversionCharacter = "n" -> <<"\n">>
    [] result.conversionCharacter = "p" ->
         LevelChars[loggingEvent.level.levelStr]
    [] result.conversionCharacter = "r" ->
         toLocaleTimeString(loggingEvent.startTime)
    [] result.conversionCharacter = "%" -> <<"%">>
    [] OTHER -> result.matchedString

\* "First, truncation"
truncated(replacement, truncation) ==
  IF truncation # <<>>
  THEN LET len == parseInt(substr(truncation, 1))
       IN substring(replacement, IF len.nan THEN 0 ELSE len.value)
  ELSE replacement

RECURSIVE rightPad(_, _)
rightPad(replacement, len) ==
  IF Len(replacement) < len THEN rightPad(replacement \o <<" ">>, len)
  ELSE replacement

RECURSIVE leftPad(_, _)
leftPad(replacement, len) ==
  IF Len(replacement) < len THEN leftPad(<<" ">> \o replacement, len)
  ELSE replacement

\* "Next, padding"; a loop bounded by NaN does not run
padded(replacement, padding) ==
  IF padding # <<>>
  THEN IF Head(padding) = "-"
       THEN LET len == parseInt(substr(padding, 1))
            IN IF len.nan THEN replacement
               ELSE rightPad(replacement, len.value)
       ELSE LET len == parseInt(padding)
            IN IF len.nan THEN replacement
               ELSE leftPad(replacement, len.value)
  ELSE replacement

\* function patternLayout (pattern): the closure keeps pattern, or
\* patternLayout.TTCC_CONVERSION_PATTERN, a property that is never set
\* (the default pattern is a local variable), when pattern is missing or
\* empty
patternLayout(pattern) ==
  [pattern |-> IF pattern.defined /\ pattern.val # <<>> THEN pattern
               ELSE NoString]

\* One turn of the while loop of the closure.  searchString is a string
\* or undefined; exec turns undefined into a string, searchString.substr
\* at the end of the body is a TypeError on undefined.
scan(searchString, formattedString, loggingEvent) ==
  LET append(result, piece) ==
        IF ~searchString.defined
        THEN [pc |-> "thrown", searchString |-> searchString,
              formattedString |-> formattedString \o piece]
        ELSE [pc |-> "scan",
              searchString |->
                StringOf(substr(searchString.val,
                                result.index + Len(result.matchedString))),
              formattedString |-> formattedString \o piece]
      body(result) ==
        IF ~result.found
        THEN [pc |-> "returned", searchString |-> searchString,
              formattedString |-> formattedString]
        ELSE IF result.text # <<>> THEN append(result, result.text)
        ELSE Once(replacementOf(result, loggingEvent), LAMBDA raw :
             Once(truncated(raw, result.truncation), LAMBDA cut :
             Once(padded(cut, result.padding), LAMBDA replacement :
             append(result, replacement))))
  IN Once(exec(IF searchString.defined THEN searchString.val
               ELSE UndefinedChars),
          body)

\* the whole call of the closure on a string: what it returns
RECURSIVE format(_, _, _)
format(searchString, formattedString, loggingEvent) ==
  LET next == scan(StringOf(searchString), formattedString, loggingEvent)
  IN IF next.pc = "scan"
     THEN format(next.searchString.val, next.formattedString, loggingEvent)
     ELSE next.formattedString

(* ------------------------- state and operations ----------------------- *)

\* loggers, appenders: the registry maps of the source.
\* constructed: the number of Logger objects built (object identity).
\* registered: the appenders passed to addAppender since the last
\*   clearAppenders (observation of the calls made).
\* firstGot: for each category, the Logger getLogger returned first.
\* last: the latest call and what its caller observed (for getLogger also
\*   whether the call built the Logger it returned).
\* layout: the closure patternLayout returned last and the call of it
\*   that is under way or over: pattern is the variable the closure
\*   captured, this the pattern property of the object it was called on,
\*   searchString and formattedString its local variables, pc where the
\*   call stands (scan: in the loop; returned; thrown).

registry == Registry(loggers, appenders, constructed)

TotalPending(s) ==
  LET RECURSIVE Sum(_)
      Sum(S) == IF S = {} THEN 0
                ELSE LET c == CHOOSE x \in S : TRUE
                     IN Len(s.appenders[c]) + Sum(S \ {c})
  IN Sum(DOMAIN s.appenders)

WithinBounds(s) ==
  /\ s.constructed <= MaxLoggers
  /\ TotalPending(s) <= MaxPending

NoConfig == Config("none", FALSE, <<>>, <<>>)

Call(op) ==
  [op |-> op, key |-> "", arg |-> "", ret |-> 0, level |-> "",
   message |-> "", built |-> 0, invoked |-> <<>>, delivered |-> <<>>,
   raised |-> FALSE, enabled |-> FALSE, created |-> FALSE,
   levelArg |-> Undef, defaultLevel |-> NoLevel, result |-> NoLevel,
   config |-> NoConfig]

Idle ==
  [pc |-> "idle", pattern |-> NoString, this |-> NoString,
   loggingEvent |-> TimedEvent(<<>>, NoLevel, <<>>, 0),
   searchString |-> NoString, formattedString |-> <<>>]

Commit(s) ==
  /\ WithinBounds(s)
  /\ loggers' = s.loggers
  /\ appenders' = s.appenders
  /\ constructed' = s.constructed

Init ==
  /\ loggers = EmptyMap
  /\ appenders = EmptyMap
  /\ constructed = 0
  /\ registered = {}
  /\ firstGot = EmptyMap
  /\ last = Call("init")
  /\ layout = Idle

Remember(got) ==
  firstGot' = IF got.key \in DOMAIN firstGot THEN firstGot
              ELSE Put(firstGot, got.key, got.ret)

DoGetLogger(categoryName) ==
  LET got == getLogger(registry, categoryName)
  IN /\ Commit(got.st)
     /\ Remember(got)
     /\ last' = [Call("getLogger") EXCEPT
                  !.arg = categoryName, !.key = got.key, !.ret = got.ret,
                  !.created = (got.st.constructed # constructed)]
     /\ UNCHANGED <<registered, layout>>

DoGetDefaultLogger ==
  LET got == getDefaultLogger(registry)
  IN /\ Commit(got.st)
     /\ Remember(got)
     /\ last' = [Call("getDefaultLogger") EXCEPT
                  !.key = got.key, !.ret = got.ret,
                  !.created = (got.st.constructed # constructed)]
     /\ UNCHANGED <<registered, layout>>

DoAddAppender(appender, args) ==
  /\ Commit(addAppender(registry, appender, args))
  /\ registered' = registered \cup {appender}
  /\ last' = Call("addAppender")
  /\ UNCHANGED <<firstGot, layout>>

DoClearAppenders ==
  /\ Commit(clearAppenders(registry))
  /\ registered' = {}
  /\ last' = Call("clearAppenders")
  /\ UNCHANGED <<firstGot, layout>>

\* a caller holds the Logger of key once some getLogger(key) returned it
Held == DOMAIN firstGot

DoSetLevel(key, level) ==
  /\ key \in Held
  /\ Commit(setLevel(registry, key, level))
  /\ last' = [Call("setLevel") EXCEPT !.key = key, !.levelArg = level]
  /\ UNCHANGED <<registered, firstGot, layout>>

DoSeverity(key, levelString, message) ==
  /\ key \in Held
  /\ LET out == severity(registry, key, levelString, message)
     IN /\ Commit(out.st)
        /\ last' = [Call("log") EXCEPT !.key = key, !.level = levelString,
                      !.message = message, !.built = out.built,
                      !.invoked = out.invoked, !.delivered = out.delivered,
                      !.raised = out.raised]
  /\ UNCHANGED <<registered, firstGot, layout>>

DoIsEnabled(key, levelString) ==
  /\ key \in Held
  /\ last' = [Call("isEnabled") EXCEPT !.key = key, !.level = levelString,
                !.enabled = isEnabled(registry, key, levelString)]
  /\ UNCHANGED <<loggers, appenders, constructed, registered, firstGot,
               layout>>

\* the appenders configure passes to addAppender: those made from the
\* configurations before the first one that has no maker
RECURSIVE AddedBy(_)
AddedBy(appenderList) ==
  IF appenderList = <<>> \/ makeAppender(Head(appenderList)).raised THEN {}
  ELSE {makeAppender(Head(appenderList)).appender}
         \cup AddedBy(Tail(appenderList))

DoConfigure(config) ==
  LET done == configure(registry, config)
  IN /\ Commit(done.st)
     /\ registered' = IF config.file # "ok" THEN registered
                      ELSE IF config.hasAppenders
                           THEN AddedBy(config.appenders)
                           ELSE {Sink("consoleAppender")}
     /\ last' = [Call("configure") EXCEPT !.config = config,
                                         !.raised = done.raised]
     /\ UNCHANGED <<firstGot, layout>>

\* Level.toLevel called directly
DoToLevel(sArg, defaultLevel) ==
  /\ last' = [Call("toLevel") EXCEPT !.levelArg = sArg,
                !.defaultLevel = defaultLevel,
                !.result = toLevel(sArg, defaultLevel)]
  /\ UNCHANGED <<loggers, appenders, constructed, registered, firstGot,
               layout>>

DoIsLessThanOrEqualTo(this, otherLevel) ==
  /\ last' = [Call("isLessThanOrEqualTo") EXCEPT !.result = this,
                !.defaultLevel = otherLevel,
                !.enabled = isLessThanOrEqualTo(this, otherLevel)]
  /\ UNCHANGED <<loggers, appenders, constructed, registered, firstGot,
               layout>>

DoIsGreaterThanOrEqualTo(this, otherLevel) ==
  /\ last' = [Call("isGreaterThanOrEqualTo") EXCEPT !.result = this,
                !.defaultLevel = otherLevel,
                !.enabled = isGreaterThanOrEqualTo(this, otherLevel)]
  /\ UNCHANGED <<loggers, appenders, constructed, registered, firstGot,
               layout>>

\* patternLayout(pattern): a new closure
DoPatternLayout(pattern) ==
  /\ layout.pc # "scan"
  /\ layout' = [Idle EXCEPT !.pc = "built",
                            !.pattern = patternLayout(pattern).pattern]
  /\ UNCHANGED <<loggers, appenders, constructed, registered, firstGot, last>>

\* The closure is called with loggingEvent.  this is the pattern property
\* of the object it is called on: undefined for the call
\* layout(loggingEvent) of consoleAppender and fileAppender, whose this is
\* the global object, a string when the caller makes the closure a method
\* of an object that has such a property.
DoLayout(this, loggingEvent) ==
  /\ layout.pc \in {"built", "returned", "thrown"}
  /\ layout' = [layout EXCEPT !.pc = "scan", !.this = this,
                              !.loggingEvent = loggingEvent,
                              !.searchString = this,
                              !.formattedString = <<>>]
  /\ UNCHANGED <<loggers, appenders, constructed, registered, firstGot, last>>

\* one turn of the while loop, or its end
DoScan ==
  /\ layout.pc = "scan"
  /\ \E next \in {scan(layout.searchString, layout.formattedString,
                        layout.loggingEvent)} :
       layout' = [layout EXCEPT !.pc = next.pc,
                                !.searchString = next.searchString,
                                !.formattedString = next.formattedString]
  /\ UNCHANGED <<loggers, appenders, constructed, registered, firstGot, last>>

(* ----------------------------- input ranges --------------------------- *)

Messages == {"m1"}

LevelSpec(category, level) == [category |-> category, level |-> level]

\* Spec: the registry.  Three categories (one of them the default one,
\* reached by getLogger() and getDefaultLogger()), two sinks, appenders
\* registered under the wildcard, one category or two, and one
\* configuration.
GetLoggerArgs == {"a", "a.b", Undefined}

CategoryNames == {"a", "a.b", DEFAULT_CATEGORY}

AppenderPool == {Sink("s1"), Sink("s2")}

CategoryArgs == {<<>>, <<"a">>, <<"a", "a.b">>}

LevelArgs == {Str("warn")}

Configs ==
  {Config("ok", TRUE,
          <<AppenderConfig("console", <<>>, Undef, ""),
            AppenderConfig("file", <<"a">>, Undef, "")>>,
          <<LevelSpec("a.b", Str("warn"))>>)}

Next ==
  \/ \E categoryName \in GetLoggerArgs : DoGetLogger(categoryName)
  \/ DoGetDefaultLogger
  \/ \E appender \in AppenderPool, args \in CategoryArgs :
       DoAddAppender(appender, args)
  \/ DoClearAppenders
  \/ \E level \in LevelArgs : DoSetLevel("a", level)
  \/ \E key \in CategoryNames, message \in Messages :
       DoSeverity(key, "Info", message)
  \/ \E config \in Configs : DoConfigure(config)

Spec == Init /\ [][Next]_vars

\* SpecConfigure: configure on a registry that already holds loggers,
\* appenders and a level.  The configurations succeed, fail at the first
\* or the second appender, fail inside a logLevelFilter, list no
\* appenders, cannot be read, or are absent.
ConfigureCategoryArgs == {<<>>, <<"a">>}

ConfigureConfigs ==
  {Config("ok", TRUE,
          <<AppenderConfig("console", <<>>, Undef, ""),
            AppenderConfig("file", <<"a">>, Undef, "")>>,
          <<LevelSpec("a", Str("warn"))>>),
   Config("ok", TRUE,
          <<AppenderConfig("console", <<"a", "a.b">>, Undef, ""),
            AppenderConfig("bogus", <<"a">>, Undef, ""),
            AppenderConfig("file", <<>>, Undef, "")>>,
          <<LevelSpec("a.b", Str("warn"))>>),
   Config("ok", TRUE,
          <<AppenderConfig("bogus", <<>>, Undef, ""),
            AppenderConfig("console", <<>>, Undef, "")>>,
          <<LevelSpec("a", Str("warn"))>>),
   Config("ok", TRUE,
          <<AppenderConfig("file", <<>>, Undef, ""),
            AppenderConfig("logLevelFilter", <<"a">>, Str("warn"), "bogus")>>,
          <<LevelSpec("a", Str("warn"))>>),
   Config("ok", TRUE,
          <<AppenderConfig("logLevelFilter", <<"a">>, Str("warn"), "file")>>,
          <<>>),
   Config("ok", FALSE, <<>>, <<LevelSpec("a.b", Str("warn"))>>),
   Config("unreadable", FALSE, <<>>, <<>>),
   Config("none", FALSE, <<>>, <<>>)}

NextConfigure ==
  \/ \E categoryName \in {"a", Undefined} : DoGetLogger(categoryName)
  \/ \E args \in ConfigureCategoryArgs : DoAddAppender(Sink("s1"), args)
  \/ DoClearAppenders
  \/ DoSetLevel("a", Str("error"))
  \/ \E message \in Messages : DoSeverity("a", "Error", message)
  \/ \E config \in ConfigureConfigs : DoConfigure(config)

SpecConfigure == Init /\ [][NextConfigure]_vars

\* SpecLog: one Logger and its fan-out.  Appenders are registered under
\* the wildcard or under "a"; one sink throws; every severity method and
\* every kind of setLevel argument is tried.
LogAppenderPool == {Sink("s1"), Sink("s2"), Sink("bad")}

LogCategoryArgs == {<<>>, <<"a">>}

LogLevelArgs ==
  {Str("info"), Str("WARN"), Str("OFF"), Str("bogus"),
   LevelObj("ERROR"), LevelObj("TRACE"), Null, Undef}

NextLog ==
  \/ DoGetLogger("a")
  \/ \E appender \in LogAppenderPool, args \in LogCategoryArgs :
       DoAddAppender(appender, args)
  \/ DoClearAppenders
  \/ \E level \in LogLevelArgs : DoSetLevel("a", level)
  \/ \E levelString \in SeverityNames, message \in Messages :
       DoSeverity("a", levelString, message)
  \/ \E levelString \in SeverityNames : DoIsEnabled("a", levelString)

SpecLog == Init /\ [][NextLog]_vars

\* SpecFilter: logLevelFilter closures, plain and nested, whose level is
\* given by name in some letter case, as a Level object, or by an
\* unrecognised name, bound to one Logger.
\* how each appender of the pool is built: the level arguments of the
\* nested logLevelFilter calls, outermost first, and the sink wrapped
FilterCases ==
  {[given |-> <<>>, sink |-> "s1"],
   [given |-> <<Str("WARN")>>, sink |-> "s1"],
   [given |-> <<Str("error"), Str("Info")>>, sink |-> "s2"],
   [given |-> <<Str("debug"), Str("FATAL")>>, sink |-> "s2"],
   [given |-> <<LevelObj("WARN")>>, sink |-> "s1"],
   [given |-> <<Str("bogus")>>, sink |-> "s2"]}

RECURSIVE Wrap(_, _)
Wrap(given, sink) ==
  IF given = <<>> THEN Sink(sink)
  ELSE logLevelFilter(Head(given), Wrap(Tail(given), sink))

FilterPool == {Wrap(c.given, c.sink) : c \in FilterCases}

FilterLevelArgs == {Str("info"), Str("ERROR")}

NextFilter ==
  \/ DoGetLogger("a")
  \/ \E appender \in FilterPool : DoAddAppender(appender, <<>>)
  \/ DoClearAppenders
  \/ \E level \in FilterLevelArgs : DoSetLevel("a", level)
  \/ \E levelString \in SeverityNames, message \in Messages :
       DoSeverity("a", levelString, message)

SpecFilter == Init /\ [][NextFilter]_vars

\* SpecLevel: Level.toLevel and the two comparisons called directly, on
\* level names in several letter cases, other strings, Level objects,
\* null and undefined, with every Level and undefined as the default.
ToLevelArgs ==
  {Str(s) : s \in {"ALL", "all", "All", "TRACE", "trace", "tRaCe", "DEBUG",
                   "debug", "Debug", "INFO", "info", "iNfO", "WARN", "warn",
                   "wArN", "ERROR", "error", "Error", "FATAL", "fatal",
                   "fAtAl", "OFF", "off", "Off", "bogus", "warning", ""}}
    \cup {LevelObj("WARN"), LevelObj("OFF"), Null, Undef}

DefaultLevels == AllLevels \cup {NoLevel}

NextLevel ==
  \/ \E sArg \in ToLevelArgs, defaultLevel \in DefaultLevels :
       DoToLevel(sArg, defaultLevel)
  \/ \E this \in AllLevels, otherLevel \in AllLevels :
       DoIsLessThanOrEqualTo(this, otherLevel)
  \/ \E this \in AllLevels, otherLevel \in AllLevels :
       DoIsGreaterThanOrEqualTo(this, otherLevel)

SpecLevel == Init /\ [][NextLevel]_vars

\* SpecReserved: the registry with the reserved names used as category
\* names.  getLogger is called with "[all]", "[default]" and "a";
\* an appender is registered under none or one of these.
ReservedNames == {ALL_CATEGORIES, DEFAULT_CATEGORY, "a"}

ReservedCategoryArgs == {<<>>} \cup {<<c>> : c \in ReservedNames}

NextReserved ==
  \/ \E categoryName \in ReservedNames : DoGetLogger(categoryName)
  \/ \E appender \in AppenderPool, args \in ReservedCategoryArgs :
       DoAddAppender(appender, args)
  \/ DoClearAppenders
  \/ \E key \in ReservedNames, message \in Messages :
       DoSeverity(key, "Info", message)

SpecReserved == Init /\ [][NextReserved]_vars

\* SpecLayout: pattern layouts.  A template is one of the examples or up
\* to MaxPieces pieces put together; the closure is called as the
\* appenders of the source call it, or on an object whose pattern is the
\* template it was built from, or on one whose pattern is another
\* template.
TemplatePieces ==
  {<<"%">>, <<"-", "5">>, <<".", "2">>, <<"c">>, <<"{", "2", "}">>,
   <<"x", " ">>}

RECURSIVE Pieced(_)
Pieced(n) ==
  IF n = 0 THEN {<<>>}
  ELSE Pieced(n - 1)
         \cup {t \o p : t \in Pieced(n - 1), p \in TemplatePieces}

\* "%-5p %c - %m%n"
DashExample ==
  <<"%", "-", "5", "p", " ", "%", "c", " ", "-", " ", "%", "m", "%", "n">>

\* "%c{2}"
PrecisionExample == <<"%", "c", "{", "2", "}">>

\* "%x"
UnknownExample == <<"%", "x">>

TemplateExamples ==
  {DashExample, PrecisionExample, UnknownExample,
   \* "%7.2c{1}|%-3.0m|"
   <<"%", "7", ".", "2", "c", "{", "1", "}", "|", "%", "-", "3", ".", "0",
     "m", "|">>,
   \* "%d{ABSOLUTE} %r %d{yy/MM/dd O}"
   <<"%", "d">> \o <<"{">> \o ABSOLUTE \o <<"}", " ", "%", "r", " ", "%", "d",
     "{", "y", "y", "/", "M", "M", "/", "d", "d", " ", "O", "}">>,
   \* "%d{DATE}"
   <<"%", "d", "{">> \o DATE \o <<"}">>,
   \* "100%"
   <<"1", "0", "0", "%">>,
   \* "50%% %-c{x}%c{0}"
   <<"5", "0", "%", "%", " ", "%", "-", "c", "{", "x", "}", "%", "c", "{",
     "0", "}">>}

Templates == TemplateExamples \cup Pieced(MaxPieces)

\* 2010-01-17 14:05:09.007, eleven hours east of Greenwich
StartTime ==
  [date |-> 17, month |-> 0, fullYear |-> 2010, hours |-> 14, minutes |-> 5,
   seconds |-> 9, milliseconds |-> 7, timezoneOffset |-> 0 - 660]

LayoutEvents ==
  {TimedEvent(<<"d", "b">>, levels.INFO, <<"o", "k">>, StartTime),
   TimedEvent(<<"a", ".", "b", ".", "c">>, levels.WARN,
              <<"h", "e", "l", "l", "o">>, StartTime),
   TimedEvent(<<"a">>, levels.ERROR, <<>>, StartTime)}

Receivers == {NoString, layout.pattern, StringOf(PrecisionExample)}

NextLayout ==
  \/ \E pattern \in {StringOf(t) : t \in Templates} \cup {NoString} :
       DoPatternLayout(pattern)
  \/ \E this \in Receivers, loggingEvent \in LayoutEvents :
       DoLayout(this, loggingEvent)
  \/ DoScan

SpecLayout == Init /\ [][NextLayout]_vars

\* SpecLayoutFair: the calls of one closure, built from any of the
\* templates before the first step; the loop of a call, once begun, is
\* run on (JavaScript runs a function to its end).
InitLayout ==
  /\ loggers = EmptyMap
  /\ appenders = EmptyMap
  /\ constructed = 0
  /\ registered = {}
  /\ firstGot = EmptyMap
  /\ last = Call("init")
  /\ \E pattern \in {StringOf(t) : t \in Templates} \cup {NoString} :
       layout = [Idle EXCEPT !.pc = "built",
                             !.pattern = patternLayout(pattern).pattern]

NextLayoutFair ==
  \/ \E this \in Receivers, loggingEvent \in LayoutEvents :
       DoLayout(this, loggingEvent)
  \/ DoScan

SpecLayoutFair == InitLayout /\ [][NextLayoutFair]_vars /\ WF_vars(DoScan)

(* ============================== properties ============================ *)

Listeners(c) == loggers[c].listeners

IsPrefix(p, q) == Len(p) <= Len(q) /\ SubSeq(q, 1, Len(p)) = p

\* C1: getLogger(c) returns the Logger every earlier getLogger(c)
\* returned; different categories have different Loggers; a missing or
\* non-string argument gives the Logger getDefaultLogger() gives; a cached
\* Logger is never replaced or removed.
C1_SameInstance ==
  /\ \A c \in DOMAIN firstGot :
       c \in DOMAIN loggers /\ loggers[c].id = firstGot[c]
  /\ \A c, d \in DOMAIN loggers : c # d => loggers[c].id # loggers[d].id
  /\ last.op \in {"getLogger", "getDefaultLogger"} =>
       last.ret = firstGot[last.key]
  /\ (last.op = "getLogger" /\ last.arg = Undefined) =>
       /\ last.key = DEFAULT_CATEGORY
       /\ last.ret = getDefaultLogger(registry).ret

\* getLogger("a") returns the cached Logger: its level was set through an
\* earlier getLogger("a"), and the default Logger exists beside it
C1_Witness ==
  /\ last.op = "getLogger" /\ last.key = "a" /\ ~last.created
  /\ loggers["a"].level = levels.WARN
  /\ DEFAULT_CATEGORY \in DOMAIN firstGot
  /\ registered # {}

Count(seq, x) == Cardinality({i \in 1..Len(seq) : seq[i] = x})

C3_Created ==
  (last.op \in {"getLogger", "getDefaultLogger"} /\ last.created) =>
     Listeners(last.key) = Pending(registry, last.key)
                             \o Pending(registry, ALL_CATEGORIES)

C3_Appended ==
  last'.op = "addAppender" =>
    \A c \in DOMAIN appenders : IsPrefix(appenders[c], appenders'[c])

RECURSIVE IsInterleaving(_, _, _)
IsInterleaving(l, x, y) ==
  IF l = <<>> THEN x = <<>> /\ y = <<>>
  ELSE \/ /\ x # <<>> /\ Head(x) = Head(l)
          /\ IsInterleaving(Tail(l), Tail(x), y)
       \/ /\ y # <<>> /\ Head(y) = Head(l)
          /\ IsInterleaving(Tail(l), x, Tail(y))

C6_NothingAfterClear ==
  /\ last.op = "log" =>
       \A i \in 1..Len(last.invoked) : last.invoked[i].appender \in registered
  /\ registered = {} =>
       /\ \A c \in DOMAIN loggers : Listeners(c) = <<>>
       /\ last.op = "log" => last.invoked = <<>> /\ last.delivered = <<>>

\* An accepted log call that invokes nothing, after a clear.  The level
\* of "a.b" shows that configure ran, which bound two appenders to "a";
\* none is registered now, so clearAppenders was called since.
C6_Witness ==
  /\ last.op = "log" /\ last.key = "a" /\ last.built = 1
  /\ last.invoked = <<>>
  /\ registered = {}
  /\ "a.b" \in DOMAIN loggers /\ loggers["a.b"].level = levels.WARN

(* ------------------------------- the Logger --------------------------- *)

\* the level of each severity method
LevelOfMethod ==
  [Trace |-> levels.TRACE, Debug |-> levels.DEBUG, Info |-> levels.INFO,
   Warn |-> levels.WARN, Error |-> levels.ERROR, Fatal |-> levels.FATAL]

LastEvent ==
  [categoryName |-> loggers[last.key].category,
   level |-> LevelOfMethod[last.level],
   message |-> last.message]

\* one call of each bound appender, in binding order, with the one event
ExpectedCalls ==
  [i \in 1..Len(Listeners(last.key)) |->
     [appender |-> Listeners(last.key)[i], event |-> LastEvent]]

Accepted ==
  loggers[last.key].level.level <= LevelOfMethod[last.level].level

\* C5: a severity method of level L on a Logger of threshold T calls every
\* bound appender once, in binding order, with one event of the Logger's
\* category, L and the message, when rank(T) <= rank(L) (up to an appender
\* that throws); otherwise it calls none and builds no event.  isXEnabled
\* returns whether rank(T) <= rank(L) and writes nothing.
C5_Gate ==
  /\ last.op = "log" =>
       IF Accepted
       THEN /\ last.built = 1
            /\ IsPrefix(last.invoked, ExpectedCalls)
            /\ ~last.raised => last.invoked = ExpectedCalls
       ELSE /\ last.built = 0 /\ ~last.raised
            /\ last.invoked = <<>> /\ last.delivered = <<>>
  /\ last.op = "isEnabled" => last.enabled = Accepted

C5_Pure ==
  last'.op = "isEnabled" => UNCHANGED <<loggers, appenders, constructed>>

C5_SeverityGate == []C5_Gate /\ [][C5_Pure]_vars

\* warn() on a Logger of threshold INFO bound to two appenders
C5_Witness ==
  /\ last.op = "log" /\ last.level = "Warn"
  /\ loggers[last.key].level = levels.INFO
  /\ Listeners(last.key) = <<Sink("s2"), Sink("s1")>>
  /\ last.invoked = ExpectedCalls /\ Len(last.invoked) = 2
  /\ last.delivered = <<[sink |-> "s2", event |-> LastEvent],
                        [sink |-> "s1", event |-> LastEvent]>>

\* the Level an argument of setLevel denotes
Denotes(x) ==
  \/ x.type = "object"
  \/ x.type = "string" /\ toUpperCase(x.val) \in LevelNames

Denoted(x) ==
  IF x.type = "object" THEN levels[x.val] ELSE levels[toUpperCase(x.val)]

\* C7: after setLevel(x) the threshold is the Level x denotes when x is a
\* Level or a level name in any letter case, and TRACE otherwise.
C7_SetLevel ==
  last.op = "setLevel" =>
    loggers[last.key].level =
      IF Denotes(last.levelArg) THEN Denoted(last.levelArg)
      ELSE levels.TRACE

\* C7 for the arguments that are not Level objects (names, null,
\* undefined): this much the code does
C7_SetLevelByName ==
  (last.op = "setLevel" /\ last.levelArg.type # "object") =>
    loggers[last.key].level =
      IF Denotes(last.levelArg) THEN Denoted(last.levelArg)
      ELSE levels.TRACE

(* ----------------------------- logLevelFilter ------------------------- *)

\* the level arguments the bound appender was built with
GivenOf(appender) ==
  (CHOOSE c \in FilterCases : Wrap(c.given, c.sink) = appender).given

RECURSIVE AllDenote(_)
AllDenote(given) ==
  given = <<>> \/ (Denotes(Head(given)) /\ AllDenote(Tail(given)))

RECURSIVE AllByName(_)
AllByName(given) ==
  \/ given = <<>>
  \/ /\ Head(given).type = "string" /\ Denotes(Head(given))
     /\ AllByName(Tail(given))

\* the event passes every filter: its level is at least each threshold
Passes(event, given) ==
  \A i \in 1..Len(given) : event.level.level >= Denoted(given[i]).level

\* what the sinks behind the listeners receive, listener by listener
RECURSIVE ExpectedDelivered(_, _)
ExpectedDelivered(listeners, event) ==
  IF listeners = <<>> THEN <<>>
  ELSE (IF Passes(event, GivenOf(Head(listeners)))
        THEN <<[sink |-> Head(listeners).sink, event |-> event]>>
        ELSE <<>>)
       \o ExpectedDelivered(Tail(listeners), event)

BoundSeq(P(_)) ==
  \A i \in 1..Len(Listeners(last.key)) : P(GivenOf(Listeners(last.key)[i]))

\* C8: a filter hands the event to its inner appender once when the
\* event's level is at least its threshold and otherwise does nothing and
\* raises nothing; so an event reaches a sink behind nested filters, bound
\* to a Logger, iff its level is at least the Logger's threshold and
\* every filter's.
C8_Filter ==
  last.op = "log" =>
    /\ ~last.raised
    /\ BoundSeq(AllDenote) =>
         last.delivered =
           IF Accepted THEN ExpectedDelivered(Listeners(last.key), LastEvent)
           ELSE <<>>

\* C8 for thresholds given by a recognised name: this much the code does
C8_FilterByName ==
  (last.op = "log" /\ BoundSeq(AllByName)) =>
    /\ ~last.raised
    /\ last.delivered =
         IF Accepted THEN ExpectedDelivered(Listeners(last.key), LastEvent)
         ELSE <<>>

C8_FilterByNameWitness ==
  /\ last.op = "log" /\ last.level = "Error"
  /\ loggers[last.key].level = levels.INFO
  /\ Listeners(last.key) =
       <<Wrap(<<Str("debug"), Str("FATAL")>>, "s2"),
         Wrap(<<Str("error"), Str("Info")>>, "s2"),
         Wrap(<<Str("WARN")>>, "s1")>>
  /\ last.delivered = <<[sink |-> "s2", event |-> LastEvent],
                        [sink |-> "s1", event |-> LastEvent]>>

(* --------------------------- a throwing appender ---------------------- *)

Throws(appender) == appender.filters = <<>> /\ appender.sink \in BrokenSinks

\* the first bound appender that throws, 0 when none does
FirstThrowing ==
  LET ks == {k \in 1..Len(Listeners(last.key)) : Throws(Listeners(last.key)[k])}
  IN IF ks = {} THEN 0 ELSE CHOOSE k \in ks : \A j \in ks : k <= j

\* C9: when the k-th bound appender throws during an accepted call, the
\* appenders before it were each called once and wrote, it was called,
\* those after it were not, the caller gets the error, and the registry
\* is as it was.
C9_Aborted ==
  (last.op = "log" /\ Accepted) =>
    LET k == FirstThrowing
    IN IF k = 0 THEN ~last.raised
       ELSE /\ last.raised
            /\ last.invoked = SubSeq(ExpectedCalls, 1, k)
            /\ last.delivered =
                 [i \in 1..(k - 1) |->
                    [sink |-> Listeners(last.key)[i].sink, event |-> LastEvent]]

C9_RegistryKept ==
  last'.op = "log" => UNCHANGED <<loggers, appenders, constructed>>

C9_AppenderFailure == []C9_Aborted /\ [][C9_RegistryKept]_vars

\* the second of three bound appenders throws
C9_Witness ==
  /\ last.op = "log" /\ last.raised
  /\ Listeners(last.key) = <<Sink("s1"), Sink("bad"), Sink("s2")>>
  /\ Len(last.invoked) = 2
  /\ last.delivered = <<[sink |-> "s1", event |-> LastEvent]>>

(* ------------------------------- configure ---------------------------- *)

\* the configuration names a type without a maker, itself or as the
\* appender a logLevelFilter wraps
NoMaker(config) ==
  \/ config.type \notin {"console", "file", "logLevelFilter"}
  \/ /\ config.type = "logLevelFilter"
     /\ config.appender \notin {"console", "file"}

\* the first configuration of the list without a maker, 0 when none
FirstBad(appenderList) ==
  LET ks == {k \in 1..Len(appenderList) : NoMaker(appenderList[k])}
  IN IF ks = {} THEN 0 ELSE CHOOSE k \in ks : \A j \in ks : k <= j

CategoriesOf(config) ==
  IF config.category = <<>> THEN <<ALL_CATEGORIES>> ELSE config.category

Times(n, x) == [i \in 1..n |-> x]

\* the pending list of category c after the first n configurations
RECURSIVE ExpectedPending(_, _, _)
ExpectedPending(appenderList, n, c) ==
  IF n = 0 THEN <<>>
  ELSE ExpectedPending(appenderList, n - 1, c)
       \o Times(Count(CategoriesOf(appenderList[n]), c),
                makeAppender(appenderList[n]).appender)

\* the list bound to an existing Logger of category c (not the wildcard
\* name) after the first n configurations
RECURSIVE ExpectedBound(_, _, _)
ExpectedBound(appenderList, n, c) ==
  IF n = 0 THEN <<>>
  ELSE ExpectedBound(appenderList, n - 1, c)
       \o Times(Count(CategoriesOf(appenderList[n]), c)
                  + Count(CategoriesOf(appenderList[n]), ALL_CATEGORIES),
                makeAppender(appenderList[n]).appender)

ConfigureCategories == {"a", "a.b", ALL_CATEGORIES, DEFAULT_CATEGORY}

\* C10: a configure whose k-th appender configuration has no maker
\* reports an error; afterwards the pending lists and the bindings of
\* every Logger hold exactly the appenders of configurations 1..k-1 (what
\* was registered before is gone, nothing of k.. is registered), and no
\* level is applied: no Logger is built and every threshold is kept.
C10_Configure ==
  LET config == last'.config
      k == FirstBad(config.appenders)
  IN (/\ last'.op = "configure" /\ config.file = "ok"
      /\ config.hasAppenders /\ k # 0) =>
       /\ last'.raised
       /\ DOMAIN loggers' = DOMAIN loggers
       /\ constructed' = constructed
       /\ \A c \in DOMAIN loggers :
            /\ loggers'[c].level = loggers[c].level
            /\ loggers'[c].id = loggers[c].id
            /\ loggers'[c].listeners =
                 ExpectedBound(config.appenders, k - 1, c)
       /\ DOMAIN appenders' \subseteq ConfigureCategories
       /\ \A c \in ConfigureCategories :
            (IF c \in DOMAIN appenders' THEN appenders'[c] ELSE <<>>)
              = ExpectedPending(config.appenders, k - 1, c)

C10_PartialApply == [][C10_Configure]_vars

\* The second of three configurations has no maker.  The Logger of "a"
\* keeps the threshold ERROR set before the call and is bound to the
\* first configuration's appender alone; the levels, which name "a.b",
\* were not applied, so "a.b" has no Logger.
C10_Witness ==
  /\ last.op = "configure" /\ last.raised
  /\ FirstBad(last.config.appenders) = 2
  /\ Len(last.config.appenders) = 3
  /\ "a" \in DOMAIN loggers /\ loggers["a"].level = levels.ERROR
  /\ Listeners("a") = <<Sink("console")>>
  /\ Pending(registry, "a.b") = <<Sink("console")>>
  /\ Pending(registry, ALL_CATEGORIES) = <<>>
  /\ "a.b" \notin DOMAIN loggers

(* -------------------------------- levels ------------------------------ *)

LevelOrder ==
  <<"ALL", "TRACE", "DEBUG", "INFO", "WARN", "ERROR", "FATAL", "OFF">>

\* the place of a Level in the order
Rank(level) == CHOOSE i \in 1..Len(LevelOrder) : LevelOrder[i] = level.levelStr

\* ways of writing each level name
Spellings ==
  [ALL   |-> {"ALL", "all", "All"},
   TRACE |-> {"TRACE", "trace", "Trace", "tRaCe"},
   DEBUG |-> {"DEBUG", "debug", "Debug"},
   INFO  |-> {"INFO", "info", "Info", "iNfO"},
   WARN  |-> {"WARN", "warn", "Warn", "wArN"},
   ERROR |-> {"ERROR", "error", "Error"},
   FATAL |-> {"FATAL", "fatal", "Fatal", "fAtAl"},
   OFF   |-> {"OFF", "off", "Off"}]

Named(sArg) ==
  {n \in LevelNames : sArg.type = "string" /\ sArg.val \in Spellings[n]}

\* C11: the eight levels are in the strict order ALL < TRACE < DEBUG <
\* INFO < WARN < ERROR < FATAL < OFF; isLessThanOrEqualTo and
\* isGreaterThanOrEqualTo compare the places in that order, so ALL is at
\* most and OFF at least every level; toLevel(name, d) is the level of
\* that name, however its letters are cased, and d for anything else.
C11_LevelOrder ==
  /\ \A i, j \in 1..Len(LevelOrder) :
       i < j => levels[LevelOrder[i]].level < levels[LevelOrder[j]].level
  /\ last.op = "isLessThanOrEqualTo" =>
       /\ last.enabled = (Rank(last.result) <= Rank(last.defaultLevel))
       /\ last.result = levels.ALL => last.enabled
  /\ last.op = "isGreaterThanOrEqualTo" =>
       /\ last.enabled = (Rank(last.result) >= Rank(last.defaultLevel))
       /\ last.result = levels.OFF => last.enabled
  /\ last.op = "toLevel" =>
       last.result = IF Named(last.levelArg) # {}
                     THEN levels[CHOOSE n \in Named(last.levelArg) : TRUE]
                     ELSE last.defaultLevel

\* toLevel("wArN", DEBUG) is WARN
C11_Witness ==
  /\ last.op = "toLevel" /\ last.levelArg = Str("wArN")
  /\ last.defaultLevel = levels.DEBUG
  /\ last.result = levels.WARN

(* --------------------------- the pattern layout ----------------------- *)

Over == layout.pc \in {"returned", "thrown"}

\* "INFO  db - ok" and a newline
DashRendered ==
  <<"I", "N", "F", "O", " ", " ", "d", "b", " ", "-", " ", "o", "k", "\n">>

DbEvent == TimedEvent(<<"d", "b">>, levels.INFO, <<"o", "k">>, StartTime)

\* C12: a call of the layout patternLayout(p) returned gives the event
\* rendered by the template p: literal runs as they are, each directive's
\* value cut to its leading N characters, then padded with blanks to the
\* width (on the right for a negative width, on the left otherwise); so
\* "%-5p %c - %m%n" gives "INFO  db - ok" and a newline for the event
\* INFO, "db", "ok".
C12_RendersTemplate ==
  (Over /\ layout.pattern.defined) =>
    /\ layout.pc = "returned"
    /\ layout.formattedString =
         format(layout.pattern.val, <<>>, layout.loggingEvent)
    /\ (layout.pattern.val = DashExample /\ layout.loggingEvent = DbEvent) =>
         layout.formattedString = DashRendered

\* C12 for a call on an object whose pattern property is a string: that
\* string is the template rendered.  This much the code does.
C12_RendersReceiver ==
  (Over /\ layout.this.defined) =>
    /\ layout.pc = "returned"
    /\ layout.formattedString =
         format(layout.this.val, <<>>, layout.loggingEvent)
    /\ (layout.this.val = DashExample /\ layout.loggingEvent = DbEvent) =>
         layout.formattedString = DashRendered

C12_RendersReceiverWitness ==
  /\ layout.pc = "returned" /\ layout.this = StringOf(DashExample)
  /\ layout.loggingEvent = DbEvent
  /\ layout.formattedString = DashRendered

\* the last n segments of a dotted name, all of it when it has no more
LastSegments(name, n) ==
  LET dots == {i \in 1..Len(name) : name[i] = "."}
  IN IF n >= Cardinality(dots) + 1 THEN name
     ELSE IF n = 0 THEN <<>>
     ELSE LET p == CHOOSE i \in dots :
                     Cardinality({j \in dots : j > i}) = n - 1
          IN SubSeq(name, p + 1, Len(name))

IsNumeral(s) == s # <<>> /\ \A i \in 1..Len(s) : s[i] \in Digits

\* C13: a turn of the loop that meets a %c directive appends the
\* category's last N segments when the directive has the precision {N},
\* N written in digits, and the whole category when it has none or N is
\* at least the number of segments (cut and padded as the directive
\* says); "%c{2}" gives "b.c" for "a.b.c" and "a" for "a".
C13_Turn ==
  LET result == exec(layout.searchString.val)
      name == layout.loggingEvent.categoryName
      raw == IF result.specifier = <<>> THEN name
             ELSE LastSegments(name, ValueOf(result.specifier))
  IN (/\ layout.pc = "scan" /\ layout.searchString.defined
      /\ result.found /\ result.conversionCharacter = "c"
      /\ result.specifier = <<>> \/ IsNumeral(result.specifier)) =>
       /\ layout'.pc = "scan"
       /\ layout'.formattedString =
            layout.formattedString
              \o padded(truncated(raw, result.truncation), result.padding)

C13_Example ==
  (/\ layout.pc = "returned" /\ layout.this = StringOf(PrecisionExample)) =>
    layout.formattedString =
      IF layout.loggingEvent.categoryName = <<"a", ".", "b", ".", "c">>
      THEN <<"b", ".", "c">>
      ELSE layout.loggingEvent.categoryName

C17_Consumes ==
  /\ (layout.pc = "scan" /\ layout'.pc = "scan") =>
       /\ layout.searchString.defined /\ layout'.searchString.defined
       /\ Len(layout'.searchString.val) < Len(layout.searchString.val)
  /\ (layout.pc = "scan" /\ layout'.pc = "returned") =>
       /\ ~exec(layout.searchString.val).found
       /\ layout'.formattedString = layout.formattedString

C17_Ends == (layout.pc = "scan") ~> Over

C17_Terminates == [][C17_Consumes]_vars /\ C17_Ends

\* "100%" rendered: the loop has ended with a rest that matches nothing
C17_Witness ==
  /\ layout.pc = "returned"
  /\ layout.this = StringOf(<<"1", "0", "0", "%">>)
  /\ layout.searchString = StringOf(<<"%">>)
  /\ layout.formattedString = <<"1", "0", "0">>

\* the characters of a template outside its directives
RECURSIVE Literals(_)
Literals(s) ==
  IF s = <<>> THEN <<>>
  ELSE IF Head(s) = "%" /\ matchDirective(s).found
  THEN Literals(substr(s, Len(matchDirective(s).matchedString)))
  ELSE <<Head(s)>> \o Literals(Tail(s))

RECURSIVE IsSubsequence(_, _)
IsSubsequence(x, y) ==
  \/ x = <<>>
  \/ /\ y # <<>>
     /\ IF Head(x) = Head(y) THEN IsSubsequence(Tail(x), Tail(y))
        ELSE IsSubsequence(x, Tail(y))

RECURSIVE Without(_, _)
Without(s, ch) ==
  IF s = <<>> THEN <<>>
  ELSE (IF Head(s) = ch THEN <<>> ELSE <<Head(s)>>) \o Without(Tail(s), ch)

\* C18: rendering a template, well formed or not, raises nothing and
\* loses nothing: the characters outside the directives are in the
\* output, in their order, and "%x" is rendered "%x".
C18_NothingLost ==
  (Over /\ layout.this.defined) =>
    /\ layout.pc = "returned"
    /\ IsSubsequence(Literals(layout.this.val), layout.formattedString)
    /\ layout.this.val = UnknownExample =>
         layout.formattedString = UnknownExample

\* C18 but for the character "%": this much the code does
C18_OnlyPercentLost ==
  (Over /\ layout.this.defined) =>
    /\ layout.pc = "returned"
    /\ IsSubsequence(Without(Literals(layout.this.val), "%"),
                     layout.formattedString)

C18_OnlyPercentLostWitness ==
  /\ layout.pc = "returned" /\ layout.this = StringOf(UnknownExample)
  /\ layout.formattedString = <<"x">>

(* ------------------------ registry: later bindings -------------------- *)

\* what a step added at the end of the pending list of category
Added(category) ==
  SubSeq(Pending([appenders |-> appenders'], category),
         Len(Pending(registry, category)) + 1,
         Len(Pending([appenders |-> appenders'], category)))

\* C14: an addAppender call that names a category whose Logger exists
\* adds the appender at the end of the list that Logger is bound to,
\* after the wildcard appenders bound before, and at the end of the
\* category's pending list; the bindings there were keep their places.
C14_Step ==
  last'.op = "addAppender" =>
    \A c \in DOMAIN loggers \ {ALL_CATEGORIES} :
      /\ IsPrefix(Pending(registry, c), Pending([appenders |-> appenders'], c))
      /\ IsPrefix(Listeners(c), loggers'[c].listeners)
      /\ Added(ALL_CATEGORIES) = <<>> =>
           loggers'[c].listeners = Listeners(c) \o Added(c)

C14_AppendedLast == [][C14_Step]_vars

\* the Logger of "a" was bound to an appender of its own and a wildcard
\* one when addAppender(s2, "a") was called: s2 is bound last
C14_Witness ==
  /\ last.op = "addAppender"
  /\ "a" \in DOMAIN loggers
  /\ Pending(registry, "a") = <<Sink("s1"), Sink("s2")>>
  /\ Pending(registry, ALL_CATEGORIES) = <<Sink("s1")>>
  /\ Listeners("a") = <<Sink("s1"), Sink("s1"), Sink("s2")>>

\* C15: clearAppenders() leaves the Loggers there are, which Logger each
\* category has and every Logger's level as they were, and leaves no
\* pending list and no appender bound to any Logger.
C15_Step ==
  last'.op = "clearAppenders" =>
    /\ DOMAIN loggers' = DOMAIN loggers
    /\ \A c \in DOMAIN loggers :
         /\ loggers'[c].id = loggers[c].id
         /\ loggers'[c].level = loggers[c].level
         /\ loggers'[c].category = loggers[c].category
         /\ loggers'[c].listeners = <<>>
    /\ constructed' = constructed
    /\ firstGot' = firstGot
    /\ \A c \in CategoryNames \cup {ALL_CATEGORIES} :
         Pending([appenders |-> appenders'], c) = <<>>

C15_OnlyAppenders == [][C15_Step]_vars

\* after clearAppenders() the Logger of "a" has the level setLevel gave
\* it and the Logger of "a.b" the level configure gave it
C15_Witness ==
  /\ last.op = "clearAppenders"
  /\ DOMAIN loggers = {"a", "a.b"}
  /\ loggers["a"].level = levels.WARN /\ loggers["a"].listeners = <<>>
  /\ loggers["a.b"].level = levels.WARN /\ loggers["a.b"].listeners = <<>>
  /\ appenders = EmptyMap

\* C16: categories stand alone.  setLevel on the Logger of one category
\* leaves every other Logger as it was ("a.b" when the category is "a");
\* an addAppender call leaves the Logger of a category it did not name
\* as it was unless it named the wildcard; and whatever is bound to a
\* Logger is pending under exactly its category or under the wildcard.
C16_Step ==
  /\ last'.op = "setLevel" =>
       /\ DOMAIN loggers' = DOMAIN loggers
       /\ \A c \in DOMAIN loggers \ {last'.key} : loggers'[c] = loggers[c]
       /\ appenders' = appenders
  /\ last'.op = "addAppender" =>
       \A c \in DOMAIN loggers :
         (Added(c) = <<>> /\ Added(ALL_CATEGORIES) = <<>>) =>
           loggers'[c] = loggers[c]

C16_Bound ==
  \A c \in DOMAIN loggers :
    \A i \in 1..Len(Listeners(c)) :
      \/ Count(Pending(registry, c), Listeners(c)[i]) > 0
      \/ Count(Pending(registry, ALL_CATEGORIES), Listeners(c)[i]) > 0

C16_NoHierarchy == []C16_Bound /\ [][C16_Step]_vars

\* setLevel("warn") on the Logger of "a", which has an appender of its
\* own: the Logger of "a.b" has its first level and no appender
C16_Witness ==
  /\ last.op = "setLevel" /\ last.key = "a"
  /\ loggers["a"].level = levels.WARN
  /\ Pending(registry, "a") = <<Sink("s1")>>
  /\ Listeners("a") = <<Sink("s1")>>
  /\ "a.b" \in DOMAIN loggers
  /\ loggers["a.b"].level = levels.TRACE
  /\ Listeners("a.b") = <<>>

(* --------------------------- reserved names --------------------------- *)

\* C19: after any calls of getLogger, addAppender and clearAppenders, a
\* Logger whose category is not the wildcard name is bound to each
\* appender as often as it is pending under the category and under the
\* wildcard together; and addAppender builds no Logger.
C19_Bound ==
  \A c \in DOMAIN loggers \ {ALL_CATEGORIES} :
    \A appender \in AppenderPool :
      Count(Listeners(c), appender)
        = Count(Pending(registry, c), appender)
            + Count(Pending(registry, ALL_CATEGORIES), appender)

C19_Step ==
  last'.op = "addAppender" =>
    /\ DOMAIN loggers' = DOMAIN loggers
    /\ constructed' = constructed

Registrations(appender) ==
  LET RECURSIVE Sum(_)
      Sum(S) == IF S = {} THEN 0
                ELSE LET c == CHOOSE x \in S : TRUE
                     IN Count(appenders[c], appender) + Sum(S \ {c})
  IN Sum(DOMAIN appenders)

Invocations(appender) ==
  Cardinality({i \in 1..Len(last.invoked) :
                 last.invoked[i].appender = appender})

\* C20: an appender registered by one addAppender call under one
\* category, or under none, is invoked at most once by a log call on any
\* Logger, the Loggers of "[all]" and "[default]" among them.
C20_AtMostOnce ==
  last.op = "log" =>
    \A appender \in AppenderPool :
      Registrations(appender) = 1 => Invocations(appender) <= 1

\* C20 for every Logger but that of "[all]": this much the code does
C20_AtMostOnceElsewhere ==
  (last.op = "log" /\ last.key # ALL_CATEGORIES) =>
    \A appender \in AppenderPool :
      Registrations(appender) = 1 => Invocations(appender) <= 1

\* a log call on the Logger of "[default]" invokes the one wildcard
\* appender once
C20_AtMostOnceElsewhereWitness ==
  /\ last.op = "log" /\ last.key = DEFAULT_CATEGORY
  /\ Registrations(Sink("s1")) = 1
  /\ Pending(registry, ALL_CATEGORIES) = <<Sink("s1")>>
  /\ Invocations(Sink("s1")) = 1

====
